---------------------------- MODULE Spec2Model ----------------------------
(***************************************************************************)
(* A model of package templates (github.com/c9845/templates): the Config   *)
(* struct, validate, Build, buildPathsToFiles and Show, together with the  *)
(* parts of path/filepath, os, embed, html/template and net/http they call.*)
(*                                                                         *)
(* Strings are sequences of one-character strings, so that TrimSpace, Ext, *)
(* Join, Clean, ToSlash and FromSlash are computed character by character. *)
(***************************************************************************)
EXTENDS Integers, Sequences, FiniteSets, TLC

(***************************************************************************)
(* Bounds of the model.                                                    *)
(***************************************************************************)
\* longest SubDirs list a constructor is given in SpecBuild
MaxSubDirs == 2
\* depth of {{template}} calls the engine model follows
MaxCallDepth == 2

(***************************************************************************)
(* Strings                                                                 *)
(***************************************************************************)
Dot == "."
Slash == "/"
BackSlash == "\\"
Space == " "

\* defaultExtension = "html"
defaultExtension == <<"h", "t", "m", "l">>

\* the target operating systems of a build of the package
GOOS == {"linux", "windows"}

\* filepath.Separator
Separator(goos) == IF goos = "windows" THEN BackSlash ELSE Slash

\* os.IsPathSeparator
IsPathSeparator(goos, ch) ==
    IF goos = "windows" THEN ch \in {Slash, BackSlash} ELSE ch = Slash

\* strings.TrimSpace: leading and trailing white space removed
RECURSIVE TrimLeft(_)
TrimLeft(s) ==
    IF s = <<>> THEN <<>>
    ELSE IF Head(s) = Space THEN TrimLeft(Tail(s)) ELSE s

RECURSIVE TrimRight(_)
TrimRight(s) ==
    IF s = <<>> THEN <<>>
    ELSE IF s[Len(s)] = Space THEN TrimRight(SubSeq(s, 1, Len(s) - 1)) ELSE s

TrimSpace(s) == TrimRight(TrimLeft(s))

\* filepath.ToSlash: every Separator replaced by a slash (the identity where
\* the Separator is the slash)
ToSlash(goos, s) ==
    [k \in 1..Len(s) |-> IF s[k] = Separator(goos) THEN Slash ELSE s[k]]

\* filepath.FromSlash: every slash replaced by the Separator
FromSlash(goos, s) ==
    [k \in 1..Len(s) |-> IF s[k] = Slash THEN Separator(goos) ELSE s[k]]

\* filepath.Ext: the suffix beginning at the final dot of the final element
RECURSIVE ExtFrom(_, _, _)
ExtFrom(goos, path, k) ==
    IF k < 1 THEN <<>>
    ELSE IF IsPathSeparator(goos, path[k]) THEN <<>>
    ELSE IF path[k] = Dot THEN SubSeq(path, k, Len(path))
    ELSE ExtFrom(goos, path, k - 1)

Ext(goos, path) == ExtFrom(goos, path, Len(path))

\* the elements of a path, split at the path separators (empty elements kept)
RECURSIVE SplitAt(_, _, _, _)
SplitAt(seps, s, k, cur) ==
    IF k > Len(s) THEN <<cur>>
    ELSE IF s[k] \in seps THEN <<cur>> \o SplitAt(seps, s, k + 1, <<>>)
    ELSE SplitAt(seps, s, k + 1, Append(cur, s[k]))

Elements(goos, path) ==
    SplitAt({ch \in {Slash, BackSlash} : IsPathSeparator(goos, ch)}, path, 1, <<>>)

\* the elements joined by sep
RECURSIVE JoinWith(_, _)
JoinWith(sep, elems) ==
    IF elems = <<>> THEN <<>>
    ELSE IF Len(elems) = 1 THEN elems[1]
    ELSE elems[1] \o <<sep>> \o JoinWith(sep, Tail(elems))

\* filepath.Clean's walk over the elements: empty and "." elements dropped,
\* ".." removes the element before it (kept at the front of a relative path,
\* dropped at the root of a rooted one)
RECURSIVE CleanElems(_, _, _)
CleanElems(elems, rooted, out) ==
    IF elems = <<>> THEN out
    ELSE LET e == Head(elems) IN
         IF e = <<>> \/ e = <<Dot>> THEN CleanElems(Tail(elems), rooted, out)
         ELSE IF e = <<Dot, Dot>>
              THEN IF out # <<>> /\ out[Len(out)] # <<Dot, Dot>>
                   THEN CleanElems(Tail(elems), rooted, SubSeq(out, 1, Len(out) - 1))
                   ELSE IF rooted THEN CleanElems(Tail(elems), rooted, out)
                   ELSE CleanElems(Tail(elems), rooted, Append(out, e))
         ELSE CleanElems(Tail(elems), rooted, Append(out, e))

\* the end of filepath.Clean: the root put back before the cleaned elements,
\* and "." for an empty result
CleanResult(sep, rooted, body) ==
    IF rooted THEN <<sep>> \o body
    ELSE IF body = <<>> THEN <<Dot>> ELSE body

\* the cleaned elements of a path, joined again
CleanBody(goos, path, rooted) ==
    JoinWith(Separator(goos), CleanElems(Elements(goos, path), rooted, <<>>))

\* filepath.Clean (paths without a volume name)
Clean(goos, path) ==
    IF path = <<>> THEN <<Dot>>
    ELSE CleanResult(Separator(goos), IsPathSeparator(goos, path[1]),
                     CleanBody(goos, path, IsPathSeparator(goos, path[1])))

\* strings.Join of the elements from the first one that is not empty
JoinRaw(sep, a, b) ==
    IF a = <<>> THEN b
    ELSE a \o <<sep>> \o b

\* filepath.Join of two elements: empty elements ignored, the rest joined by
\* the Separator and cleaned; the empty string when both are empty
Join(goos, a, b) ==
    IF a = <<>> /\ b = <<>> THEN <<>>
    ELSE Clean(goos, JoinRaw(Separator(goos), a, b))

\* the last of the elements that are not empty
LastElement(sep, kept) ==
    IF kept = <<>> THEN <<sep>> ELSE kept[Len(kept)]

\* filepath.Base: the last element of the path
Base(goos, path) ==
    IF path = <<>> THEN <<Dot>>
    ELSE LastElement(Separator(goos),
                     SelectSeq(Elements(goos, path), LAMBDA e : e # <<>>))


(***************************************************************************)
(* The template tree: the files of the README's layout, as they lie on the *)
(* developer's disk and as //go:embed bundles them.  A directory maps to   *)
(* its entries in the order ReadDir returns them (sorted by name).  A file *)
(* carries what the engine sees of it: whether it parses, and its body.    *)
(***************************************************************************)
s_t == <<"t">>
s_app == <<"a", "p", "p">>
s_bad == <<"b", "a", "d">>
s_docs == <<"d", "o", "c", "s">>
s_help == <<"h", "e", "l", "p">>
s_img == <<"i", "m", "g">>
s_nope == <<"n", "o", "p", "e">>
s_hdr_html == <<"h", "d", "r", ".", "h", "t", "m", "l">>
s_old_html_bak == <<"o", "l", "d", ".", "h", "t", "m", "l", ".", "b", "a", "k">>
s_index_html == <<"i", "n", "d", "e", "x", ".", "h", "t", "m", "l">>
s_index == <<"i", "n", "d", "e", "x">>
s_oops_html == <<"o", "o", "p", "s", ".", "h", "t", "m", "l">>
s_oops == <<"o", "o", "p", "s">>
s_page_tmpl == <<"p", "a", "g", "e", ".", "t", "m", "p", "l">>
s_page == <<"p", "a", "g", "e">>
s_broken_html == <<"b", "r", "o", "k", "e", "n", ".", "h", "t", "m", "l">>
s_deep_html == <<"d", "e", "e", "p", ".", "h", "t", "m", "l">>
s_readme_txt == <<"r", "e", "a", "d", "m", "e", ".", "t", "x", "t">>
s_tmpl == <<"t", "m", "p", "l">>

\* the instructions of a template body
Text(v) == <<"text", v>>
Call(name) == <<"call">> \o name
FieldOfData == <<"field">>
CallFailingFunc == <<"fail">>
ShowDevelopment == <<"dev">>
ShowUseLocalFiles == <<"local">>
ShowCacheBustFiles == <<"bust">>

DirEntry(name) == [name |-> name, dir |-> TRUE, ok |-> TRUE, body |-> <<>>]
FileEntry(name, ok, body) == [name |-> name, dir |-> FALSE, ok |-> ok, body |-> body]

\* t/hdr.html, t/old.html.bak and the subdirectories app, bad, docs, help
TemplateTree ==
    (<<>> :> <<DirEntry(s_t)>>)
    @@ (<<s_t>> :>
          << DirEntry(s_app), DirEntry(s_bad), DirEntry(s_docs),
             FileEntry(s_hdr_html, TRUE,
                       <<Text("hdr"), ShowDevelopment, ShowUseLocalFiles, ShowCacheBustFiles>>),
             DirEntry(s_help),
             FileEntry(s_old_html_bak, TRUE, <<Text("old")>>) >>)
    @@ (<<s_t, s_app>> :>
          << FileEntry(s_index_html, TRUE, <<Call(s_hdr_html), Text("app index")>>),
             FileEntry(s_oops_html, TRUE, <<Text("oops"), CallFailingFunc>>),
             FileEntry(s_page_tmpl, TRUE, <<Text("page")>>) >>)
    @@ (<<s_t, s_bad>> :>
          << FileEntry(s_broken_html, FALSE, <<>>) >>)
    @@ (<<s_t, s_docs>> :>
          << FileEntry(s_index_html, TRUE, <<FieldOfData, Text("docs index")>>),
             FileEntry(s_hdr_html, TRUE, <<Text("docs hdr")>>) >>)
    @@ (<<s_t, s_help>> :>
          << DirEntry(s_img), FileEntry(s_readme_txt, TRUE, <<Text("readme")>>) >>)
    @@ (<<s_t, s_help, s_img>> :>
          << FileEntry(s_deep_html, TRUE, <<Text("deep")>>) >>)

\* what the working directory holds: the template tree ("dev"), or nothing
\* of it ("deployed": the executable runs where only its embedded copy exists)
Disks == {"dev", "deployed"}
DiskTree(disk) == IF disk = "dev" THEN TemplateTree ELSE (<<>> :> <<>>)

\* the elements of a cleaned relative path: none for "."
KeyOf(goos, cleaned) ==
    IF cleaned = <<Dot>> THEN <<>> ELSE Elements(goos, cleaned)

\* whether the elements stay inside the working directory
Inside(key) == \A k \in 1..Len(key) : key[k] # <<Dot, Dot>>

\* the place a path names under the working directory: its elements once
\* cleaned, and whether it names a place there at all (the model's trees hold
\* no absolute paths and nothing above the working directory)
Place(ok, key) == [ok |-> ok /\ Inside(key), key |-> key]

Resolve(goos, path) ==
    IF path = <<>> THEN Place(FALSE, <<>>)
    ELSE Place(~IsPathSeparator(goos, path[1]), KeyOf(goos, Clean(goos, path)))

\* the entries named `name` among those of a directory
Named(entries, name) ==
    {entries[k] : k \in {j \in 1..Len(entries) : entries[j].name = name}}

\* the entry of `tree` the key names, as a set of zero or one entries
EntryAt(tree, key) ==
    IF key = <<>> THEN {DirEntry(<<>>)}
    ELSE IF SubSeq(key, 1, Len(key) - 1) \notin DOMAIN tree THEN {}
    ELSE Named(tree[SubSeq(key, 1, Len(key) - 1)], key[Len(key)])

\* whether nothing lies at the place
Missing(tree, place) == ~place.ok \/ EntryAt(tree, place.key) = {}

\* os.Stat(path), then os.IsNotExist(err)
StatNotExist(goos, disk, path) == Missing(DiskTree(disk), Resolve(goos, path))

\* the entries of the directory at the place, or an error
ReadDirAt(tree, place) ==
    IF place.ok /\ place.key \in DOMAIN tree
    THEN [err |-> "nil", files |-> tree[place.key]]
    ELSE [err |-> "readdir", files |-> <<>>]

\* os.ReadDir(path): the entries of the directory, or an error
OsReadDir(goos, disk, path) == ReadDirAt(DiskTree(disk), Resolve(goos, path))

\* the elements of a slash-separated name
SlashElements(name) ==
    SplitAt({Slash}, name, 1, <<>>)

\* fs.ValidPath: slash-separated elements, none empty, "." or ".."
ValidElements(elems) ==
    \A k \in 1..Len(elems) : elems[k] \notin {<<>>, <<Dot>>, <<Dot, Dot>>}

\* the place a name has in the bundle: valid names only, "." the root
EmbedPlace(name) ==
    IF name = <<Dot>> THEN [ok |-> TRUE, key |-> <<>>]
    ELSE [ok |-> ValidElements(SlashElements(name)), key |-> SlashElements(name)]

\* embed.FS.ReadDir(name): the bundle knows slash-separated paths only
EmbedReadDir(embeddedFS, name) ==
    IF embeddedFS = "bundle" THEN ReadDirAt(TemplateTree, EmbedPlace(name))
    ELSE [err |-> "readdir", files |-> <<>>]

\* what reading a file gives: an error when no file lies there
FileRead(found) ==
    IF found = {} THEN [err |-> TRUE, ok |-> FALSE, body |-> <<>>]
    ELSE [err |-> FALSE, ok |-> (CHOOSE x \in found : TRUE).ok,
          body |-> (CHOOSE x \in found : TRUE).body]

\* the files at the place
FilesAt(tree, place) ==
    IF place.ok THEN {e \in EntryAt(tree, place.key) : ~e.dir} ELSE {}

\* os.ReadFile(path), as template.ParseFiles reads each file: from the disk
ReadFile(goos, disk, path) ==
    FileRead(FilesAt(DiskTree(disk), Resolve(goos, path)))

(***************************************************************************)
(* html/template, as far as Build and Show use it.  A compiled group       *)
(* (a template.Template) is the list of sources it was parsed from and the *)
(* templates it defines, each named by the base name of its file.          *)
(***************************************************************************)
EmptyDefs == [n \in {} |-> <<>>]

\* Parse of one file into the group: a later definition of a name replaces
\* the earlier one, unless its body is empty
Define(defs, name, body) ==
    IF name \in DOMAIN defs /\ body = <<>> THEN defs
    ELSE [n \in DOMAIN defs \cup {name} |-> IF n = name THEN body ELSE defs[n]]

\* template.New("").Funcs(c.FuncMap).ParseFiles(paths...): every file is read
\* and parsed in the order given; the first failure fails the whole call
RECURSIVE ParseFrom(_, _, _, _, _)
ParseOne(goos, disk, paths, k, defs, f) ==
    IF f.err THEN [err |-> "open", defs |-> EmptyDefs]
    ELSE IF ~f.ok THEN [err |-> "parse", defs |-> EmptyDefs]
    ELSE ParseFrom(goos, disk, paths, k + 1,
                   Define(defs, Base(goos, paths[k]), f.body))

ParseFrom(goos, disk, paths, k, defs) ==
    IF k > Len(paths) THEN [err |-> "nil", defs |-> defs]
    ELSE ParseOne(goos, disk, paths, k, defs, ReadFile(goos, disk, paths[k]))

Parsed(paths, r) == [err |-> r.err, t |-> [srcs |-> paths, defs |-> r.defs]]

ParseFiles(goos, disk, paths) ==
    Parsed(paths, ParseFrom(goos, disk, paths, 1, EmptyDefs))

\* the escaper's walk before the first execution: every {{template}} call
\* must name a template of the group
RECURSIVE Escapes(_, _, _)
Escapes(defs, body, fuel) ==
    \A k \in 1..Len(body) :
        body[k][1] = "call" =>
            /\ Tail(body[k]) \in DOMAIN defs
            /\ fuel > 0
            /\ Escapes(defs, defs[Tail(body[k])], fuel - 1)

BoolText(b) == IF b THEN "true" ELSE "false"

\* execution of a body: what is written, and whether an error stopped it
RECURSIVE Run(_, _, _)
Then(first, rest) == [out |-> first.out \o rest.out, err |-> rest.err]

RunRest(defs, body, data, first) ==
    IF first.err THEN first ELSE Then(first, Run(defs, Tail(body), data))

RunOne(defs, ins, data) ==
    CASE ins[1] = "text" -> [out |-> <<ins>>, err |-> FALSE]
      [] ins[1] = "dev" -> [out |-> <<<<"dev", BoolText(data.Development)>>>>, err |-> FALSE]
      [] ins[1] = "local" -> [out |-> <<<<"local", BoolText(data.UseLocalFiles)>>>>, err |-> FALSE]
      [] ins[1] = "bust" -> [out |-> <<<<"bust", data.CacheBustFiles>>>>, err |-> FALSE]
      [] ins[1] = "field" -> IF data.InjectedData = "nil"
                             THEN [out |-> <<>>, err |-> TRUE]
                             ELSE [out |-> <<<<"data", data.InjectedData>>>>, err |-> FALSE]
      [] ins[1] = "call" -> Run(defs, defs[Tail(ins)], data)
      [] OTHER -> [out |-> <<>>, err |-> TRUE]

Run(defs, body, data) ==
    IF body = <<>> THEN [out |-> <<>>, err |-> FALSE]
    ELSE RunRest(defs, body, data, RunOne(defs, Head(body), data))

\* what an execution returns: an error names the template
Executed(name, r) ==
    [out |-> r.out, err |-> IF r.err THEN <<"error", "executing">> \o name ELSE <<>>]

\* t.ExecuteTemplate(w, name, data): the lookup and the escaping fail before
\* anything is written; an execution error stops the writing where it occurs.
\* The writes go to w as they are produced.
ExecuteTemplate(t, name, data) ==
    IF name \notin DOMAIN t.defs
    THEN [out |-> <<>>, err |-> <<"error", "undefined">> \o name]
    ELSE IF ~Escapes(t.defs, t.defs[name], MaxCallDepth)
    THEN [out |-> <<>>, err |-> <<"error", "no such template">> \o name]
    ELSE Executed(name, Run(t.defs, t.defs[name], data))

(***************************************************************************)
(* net/http: the response writer Show is handed (httptest.ResponseRecorder)*)
(***************************************************************************)
StatusOK == 200
StatusNotFound == 404
StatusInternalServerError == 500

\* httptest.NewRecorder()
NewRecorder == [Code |-> StatusOK, wroteHeader |-> FALSE, Body |-> <<>>]

\* w.WriteHeader(code): only the first call sets the status
WriteHeader(w, code) ==
    IF w.wroteHeader THEN w ELSE [w EXCEPT !.Code = code, !.wroteHeader = TRUE]

\* w.Write(out): the first write sends the header with status 200
Write(w, out) ==
    IF out = <<>> THEN w
    ELSE [WriteHeader(w, StatusOK) EXCEPT !.Body = @ \o out]

\* http.Error(w, msg, code)
HttpError(w, msg, code) == Write(WriteHeader(w, code), <<msg>>)

(***************************************************************************)
(* The template functions                                                  *)
(***************************************************************************)
Digits == <<"0", "1", "2", "3", "4", "5", "6", "7", "8", "9">>

IsDigits(s) == \A k \in 1..Len(s) : \E v \in 1..10 : Digits[v] = s[k]

\* the number a string of digits writes
RECURSIVE Atoi(_)
Atoi(s) ==
    IF s = <<>> THEN 0
    ELSE Atoi(SubSeq(s, 1, Len(s) - 1)) * 10
         + (CHOOSE v \in 0..9 : Digits[v + 1] = s[Len(s)])

\* the days of a month
DaysIn(year, month) ==
    IF month = 2
    THEN (IF year % 4 = 0 /\ (year % 100 # 0 \/ year % 400 = 0) THEN 29 ELSE 28)
    ELSE IF month \in {4, 6, 9, 11} THEN 30 ELSE 31

\* whether the fields name a day of the calendar
InRange(year, month, day) ==
    month \in 1..12 /\ day \in 1..DaysIn(year, month)

\* time.Parse("2006-01-02", date): four digits, "-", two digits, "-", two
\* digits, nothing more, and the fields a day of the calendar
Parse(date) ==
    IF /\ Len(date) = 10
       /\ date[5] = "-"
       /\ date[8] = "-"
       /\ IsDigits(SubSeq(date, 1, 4) \o SubSeq(date, 6, 7) \o SubSeq(date, 9, 10))
       /\ InRange(Atoi(SubSeq(date, 1, 4)), Atoi(SubSeq(date, 6, 7)),
                  Atoi(SubSeq(date, 9, 10)))
    THEN [err |-> FALSE, year |-> SubSeq(date, 1, 4), month |-> SubSeq(date, 6, 7),
          day |-> SubSeq(date, 9, 10)]
    ELSE [err |-> TRUE, year |-> <<>>, month |-> <<>>, day |-> <<>>]

\* t.Format(layout) from position k, for layouts of "2006", "01", "02" and
\* separators: each reference field gives the field of t, anything else
\* gives itself
RECURSIVE FormatFrom(_, _, _)
FormatFrom(t, layout, k) ==
    IF k > Len(layout) THEN <<>>
    ELSE IF k + 3 <= Len(layout) /\ SubSeq(layout, k, k + 3) = <<"2", "0", "0", "6">>
    THEN t.year \o FormatFrom(t, layout, k + 4)
    ELSE IF k + 1 <= Len(layout) /\ SubSeq(layout, k, k + 1) = <<"0", "1">>
    THEN t.month \o FormatFrom(t, layout, k + 2)
    ELSE IF k + 1 <= Len(layout) /\ SubSeq(layout, k, k + 1) = <<"0", "2">>
    THEN t.day \o FormatFrom(t, layout, k + 2)
    ELSE <<layout[k]>> \o FormatFrom(t, layout, k + 1)

\* a FuncDateReformat that returns nothing for a date it cannot parse
EmptyWhenUnparsed(date, format, t) ==
    IF t.err THEN <<>> ELSE FormatFrom(t, format, 1)

\* the end of FuncDateReformat: the date itself when it did not parse
Reformatted(date, format, t) ==
    IF t.err THEN date ELSE FormatFrom(t, format, 1)

\* FuncDateReformat(date, format)
FuncDateReformat(date, format) == Reformatted(date, format, Parse(date))

\* the dates and the formats the templates call it with
Dates ==
    {<<"2", "0", "2", "0", "-", "0", "1", "-", "0", "1">>,
     <<"2", "0", "2", "0", "-", "0", "2", "-", "2", "9">>,
     <<"2", "0", "1", "9", "-", "1", "2", "-", "3", "1">>,
     <<"2", "0", "2", "0", "-", "0", "1", "-", "3", "2">>,
     <<"2", "0", "2", "1", "-", "0", "2", "-", "2", "9">>,
     <<"2", "0", "2", "0", "-", "1", "3", "-", "0", "1">>,
     <<"2", "0", "2", "0", "-", "0", "0", "-", "1", "0">>,
     <<"2", "0", "2", "0", "-", "1", "-", "1">>,
     <<"2", "0", "2", "0", "-", "0", "1", "-", "0", "1", "x">>,
     <<"2", "0", "2", "0", "/", "0", "1", "/", "0", "1">>,
     <<"2", "0", "a", "0", "-", "0", "1", "-", "0", "1">>,
     <<>>}
Formats ==
    {<<"0", "1", "/", "0", "2", "/", "2", "0", "0", "6">>,
     <<"2", "0", "0", "6", "-", "0", "1", "-", "0", "2">>,
     <<"2", "0", "0", "6">>,
     <<"/">>,
     <<>>}

NoFuncCall == [name |-> "none", date |-> <<>>, format |-> <<>>, d |-> <<>>]

(***************************************************************************)
(* The state: one Config (the package-level config, or one a caller holds),*)
(* the platform and the disk it runs on, the position of a Build call in   *)
(* progress with its locals, and what the latest call returned.            *)
(***************************************************************************)
VARIABLES
    goos,           \* the operating system the package was built for
    disk,           \* what the working directory holds
    config,         \* the Config: its fields, and templates (the registry)
    pc,             \* "idle", or where the Build call in progress stands
    baseFilePaths,  \* Build's local baseFilePaths
    idx,            \* Build's position in c.SubDirs
    err,            \* what the latest Build returned
    listings,       \* directory listings the latest Build call has made
    called,         \* the Config as it was when the latest Build was called
    op,             \* the latest operation
    req,            \* the arguments of the latest Show
    sink,           \* the response writer of the latest Show
    listed,         \* the latest direct call of buildPathsToFiles and its result
    called_func,    \* the latest call of a template function and its result
    built           \* a Build of this Config has returned nil since it was made

vars == <<goos, disk, config, pc, baseFilePaths, idx, err, listings, called,
          op, req, sink, listed, called_func, built>>

\* a map[string]*template.Template: nil, or a map from group key to group
NilMap == [nil |-> TRUE, m |-> <<>>]
\* make(map[string]*template.Template)
MakeMap == [nil |-> FALSE, m |-> <<>>]

\* the groups' keys
Keys(templates) == DOMAIN templates.m

\* a store that makes the map anew: only the latest group stays
StoreAlone(templates, key, t) == [nil |-> FALSE, m |-> [k \in {key} |-> t]]

\* templates[key] = t (an assignment to an entry of a nil map panics: Build
\* makes the map before it stores in it)
Store(templates, key, t) ==
    [nil |-> FALSE,
     m |-> [k \in DOMAIN templates.m \cup {key} |->
               IF k = key THEN t ELSE templates.m[k]]]

\* Config{}: the package-level config before any Default...Config call
ZeroConfig ==
    [Development |-> FALSE, UseLocalFiles |-> FALSE, BasePath |-> <<>>,
     SubDirs |-> <<>>, Extension |-> <<>>, UseEmbedded |-> FALSE,
     EmbeddedFS |-> "empty", CacheBustingFilePairs |-> "nil",
     templates |-> NilMap]

\* NewConfig(), DefaultConfig()
NewConfig == [ZeroConfig EXCEPT !.Extension = defaultExtension]

\* NewOnDiskConfig(basePath, subdirs), DefaultOnDiskConfig(basePath, subdirs)
NewOnDiskConfig(basePath, subdirs) ==
    [ZeroConfig EXCEPT !.BasePath = basePath, !.SubDirs = subdirs,
                       !.Extension = defaultExtension, !.templates = MakeMap]

\* NewEmbeddedConfig(embeddedFS, basePath, subdirs), DefaultEmbeddedConfig(...)
NewEmbeddedConfig(embeddedFS, basePath, subdirs) ==
    [ZeroConfig EXCEPT !.BasePath = basePath, !.SubDirs = subdirs,
                       !.Extension = defaultExtension, !.UseEmbedded = TRUE,
                       !.EmbeddedFS = embeddedFS, !.templates = MakeMap]

(***************************************************************************)
(* validate                                                                *)
(***************************************************************************)
\* the loop over c.SubDirs from position k: each name trimmed and checked,
\* then its path checked, then the name stored back in native form
RECURSIVE ValidateSubDirs(_, _, _, _)
ValidateSubDir(c, os, dk, k, p) ==
    IF p = <<>> THEN [c |-> c, err |-> "ErrInvalidSubDir"]
    ELSE IF StatNotExist(os, dk, Join(os, c.BasePath, p))
    THEN [c |-> c, err |-> "stat subdir"]
    ELSE ValidateSubDirs([c EXCEPT !.SubDirs[k] = p], os, dk, k + 1)

ValidateSubDirs(c, os, dk, k) ==
    IF k > Len(c.SubDirs) THEN [c |-> c, err |-> "nil"]
    ELSE ValidateSubDir(c, os, dk, k, FromSlash(os, TrimSpace(c.SubDirs[k])))

\* the extension trimmed, and the default in place of a blank one
OrDefault(ext) == IF ext = <<>> THEN defaultExtension ELSE ext

\* a validate that does not trim the extension
UntrimmedExtension(ext) == OrDefault(ext)

NormalExtension(ext) == OrDefault(TrimSpace(ext))

\* validate's last check: an embedded config needs its embedded files
ValidateEmbedded(c) ==
    IF c.UseEmbedded /\ c.EmbeddedFS = "empty"
    THEN [c |-> c, err |-> "ErrNoEmbeddedFilesProvided"]
    ELSE [c |-> c, err |-> "nil"]

\* after the subdirectories: the extension, then the embedded files
ValidateExtension(subs) ==
    IF subs.err # "nil" THEN subs
    ELSE ValidateEmbedded([subs.c EXCEPT !.Extension = NormalExtension(@)])

\* a validate that checks the subdirectories before the base path's existence
BasePathAfterSubDirs(subs, c, os, dk) ==
    IF subs.err # "nil" THEN subs
    ELSE IF StatNotExist(os, dk, c.BasePath) THEN [c |-> c, err |-> "stat base"]
    ELSE ValidateExtension(subs)

SubDirsFirst(c, os, dk) ==
    IF c.BasePath = <<>> THEN [c |-> c, err |-> "ErrBasePathNotSet"]
    ELSE IF c.UseEmbedded THEN ValidateExtension([c |-> c, err |-> "nil"])
    ELSE BasePathAfterSubDirs(ValidateSubDirs(c, os, dk, 1), c, os, dk)

\* after the base path is trimmed: it is set and, on disk, it exists; then
\* (on disk) the subdirectories
ValidateBasePath(c, os, dk) ==
    IF c.BasePath = <<>> THEN [c |-> c, err |-> "ErrBasePathNotSet"]
    ELSE IF c.UseEmbedded THEN ValidateExtension([c |-> c, err |-> "nil"])
    ELSE IF StatNotExist(os, dk, c.BasePath) THEN [c |-> c, err |-> "stat base"]
    ELSE ValidateExtension(ValidateSubDirs(c, os, dk, 1))

\* c.validate(): the config as validate leaves it, and the error it returns
validate(c, os, dk) ==
    ValidateBasePath([c EXCEPT !.BasePath = TrimSpace(@)], os, dk)

(***************************************************************************)
(* buildPathsToFiles                                                       *)
(***************************************************************************)
\* a buildPathsToFiles that looks for the extension anywhere in the name
\* (strings.Contains)
Contains(s, part) ==
    \E i \in 1..Len(s) :
        i + Len(part) - 1 <= Len(s) /\ SubSeq(s, i, i + Len(part) - 1) = part

MatchesContains(c, os, f) == ~f.dir /\ Contains(f.name, <<Dot>> \o c.Extension)

\* a buildPathsToFiles that leaves the separators of embedded paths alone
NeverToSlash(c, os, path) == path

\* the test of one directory entry: not a directory, and its extension is
\* "." + c.Extension
Matches(c, os, f) == ~f.dir /\ Ext(os, f.name) = <<Dot>> \o c.Extension

\* a path in the form the source mode asks for: slashes for embedded files
SlashIfEmbedded(c, os, path) == IF c.UseEmbedded THEN ToSlash(os, path) ELSE path

\* the complete path of one entry
CompletePath(c, os, dir, name) == SlashIfEmbedded(c, os, Join(os, dir, name))

RECURSIVE PathsFrom(_, _, _, _, _)
PathsFrom(c, os, dir, files, k) ==
    IF k > Len(files) THEN <<>>
    ELSE (IF Matches(c, os, files[k])
          THEN <<CompletePath(c, os, dir, files[k].name)>> ELSE <<>>)
         \o PathsFrom(c, os, dir, files, k + 1)

\* readFunc(pathToDirectory)
ReadDir(c, os, dk, dir) ==
    IF c.UseEmbedded THEN EmbedReadDir(c.EmbeddedFS, dir) ELSE OsReadDir(os, dk, dir)

\* the paths of the entries read, or the error of the reading
PathsOf(c, os, dir, read) ==
    IF read.err # "nil" THEN [err |-> read.err, paths |-> <<>>]
    ELSE [err |-> "nil", paths |-> PathsFrom(c, os, dir, read.files, 1)]

PathsIn(c, os, dk, dir) == PathsOf(c, os, dir, ReadDir(c, os, dk, dir))

\* c.buildPathsToFiles(pathToDirectory)
buildPathsToFiles(c, os, dk, pathToDirectory) ==
    PathsIn(c, os, dk, SlashIfEmbedded(c, os, pathToDirectory))

(***************************************************************************)
(* Build, in the steps another call could observe: the entry (validate and *)
(* the reset of c.templates), the base directory, one subdirectory at a    *)
(* time, and the return.                                                   *)
(***************************************************************************)
\* a Build that never empties c.templates
KeepTemplates(v) == v

\* a Build that empties c.templates before it validates
ResetFirst(v) == [c |-> [v.c EXCEPT !.templates = MakeMap], err |-> v.err]

\* c.templates = make(map[string]*template.Template), once validate passed
ResetTemplates(v) ==
    IF v.err # "nil" THEN v
    ELSE [c |-> [v.c EXCEPT !.templates = MakeMap], err |-> "nil"]

\* Build's first lines: validate, and on success the reset of c.templates
BuildEntry(c, os, dk) == ResetTemplates(validate(c, os, dk))

\* the group parsed from the paths, stored under the key
StoreParsed(c, key, parsed) ==
    IF parsed.err # "nil" THEN [c |-> c, err |-> parsed.err]
    ELSE [c |-> [c EXCEPT !.templates = Store(@, key, parsed.t)], err |-> "nil"]

\* the base group: parsed from the base paths alone and stored under "",
\* when there is any base path
StoreBase(c, os, dk, found) ==
    IF found.err # "nil" THEN [c |-> c, err |-> found.err]
    ELSE IF Len(found.paths) = 0 THEN [c |-> c, err |-> "nil"]
    ELSE StoreParsed(c, <<>>, ParseFiles(os, dk, found.paths))

\* a Build that skips no subdirectory
NeverSkip(subdirFilepaths) == FALSE

\* whether a subdirectory is skipped: it has no template files
SkipSubDir(subdirFilepaths) == Len(subdirFilepaths) = 0

\* a Build that puts the base files before the subdirectory's own
BaseFirst(subdirFilepaths, basePaths) == basePaths \o subdirFilepaths

\* a Build that parses a subdirectory's own files alone
OwnPathsOnly(subdirFilepaths, basePaths) == subdirFilepaths

\* a Build that reuses one list of paths for every subdirectory: the paths of
\* the earlier subdirectories are still in it
EveryGroupsPaths(templates) ==
    LET RECURSIVE all(_)
        all(keys) ==
            IF keys = {} THEN <<>>
            ELSE LET key == CHOOSE x \in keys : TRUE
                 IN  templates.m[key].srcs \o all(keys \ {key})
    IN  all(Keys(templates))

SharedPaths(subdirFilepaths, basePaths) ==
    subdirFilepaths \o basePaths \o EveryGroupsPaths(config.templates)

\* the base file paths added to the subdirectory's for inheritance
Inherit(subdirFilepaths, basePaths) == subdirFilepaths \o basePaths

\* the key a subdirectory's group is stored under
GroupKey(subDir) == subDir

\* the complete path to a subdirectory
CompletePathToSubDir(c, os, subDir) ==
    SlashIfEmbedded(c, os, Join(os, c.BasePath, subDir))

\* a subdirectory's group: skipped without files of its own, else parsed from
\* its paths and the base paths and stored under the subdirectory's name
StoreSubDir(c, os, dk, basePaths, subDir, found) ==
    IF found.err # "nil" THEN [c |-> c, err |-> found.err]
    ELSE IF SkipSubDir(found.paths) THEN [c |-> c, err |-> "nil"]
    ELSE StoreParsed(c, GroupKey(subDir),
                     ParseFiles(os, dk, Inherit(found.paths, basePaths)))

\* one iteration of the loop over c.SubDirs
BuildSubDirGroup(c, os, dk, basePaths, subDir) ==
    StoreSubDir(c, os, dk, basePaths, subDir,
                buildPathsToFiles(c, os, dk, CompletePathToSubDir(c, os, subDir)))

\* no direct call of buildPathsToFiles yet
NoListing == [pathToDirectory |-> <<>>, paths |-> <<>>, err |-> "nil"]

NoReq == [subdir |-> <<>>, templateName |-> <<>>, injectedData |-> "nil"]

\* what every operation other than Show leaves of the latest Show
ForgetShow == req' = NoReq /\ sink' = NewRecorder

\* Build is entered: r is what validate and the reset leave
Entered(r) ==
    /\ config' = r.c
    /\ err' = r.err
    /\ pc' = IF r.err = "nil" THEN "base" ELSE "idle"
    /\ listings' = 0
    /\ called' = config
    /\ baseFilePaths' = <<>>
    /\ idx' = 1
    /\ op' = "Build"
    /\ ForgetShow
    /\ UNCHANGED <<goos, disk, built, listed, called_func>>

BuildStart == pc = "idle" /\ Entered(BuildEntry(config, goos, disk))

\* the base directory is done: found are its paths, r what storing its group
\* leaves
BaseDone(found, r) ==
    /\ config' = r.c
    /\ err' = r.err
    /\ baseFilePaths' = found.paths
    /\ pc' = IF r.err = "nil" THEN "subdirs" ELSE "idle"
    /\ listings' = listings + 1
    /\ UNCHANGED <<goos, disk, built, listed, called_func, idx, called, op, req, sink>>

BaseFound(found) == BaseDone(found, StoreBase(config, goos, disk, found))

BuildBase ==
    pc = "base" /\ BaseFound(buildPathsToFiles(config, goos, disk, config.BasePath))

\* one subdirectory is done
SubDirDone(r) ==
    /\ config' = r.c
    /\ err' = r.err
    /\ pc' = IF r.err = "nil" THEN "subdirs" ELSE "idle"
    /\ idx' = idx + 1
    /\ listings' = listings + 1
    /\ UNCHANGED <<goos, disk, built, listed, called_func, baseFilePaths, called, op, req, sink>>

BuildSubDir ==
    /\ pc = "subdirs"
    /\ idx <= Len(config.SubDirs)
    /\ SubDirDone(BuildSubDirGroup(config, goos, disk, baseFilePaths, config.SubDirs[idx]))

BuildReturn ==
    /\ pc = "subdirs"
    /\ idx > Len(config.SubDirs)
    /\ pc' = "idle"
    /\ built' = TRUE
    /\ UNCHANGED <<goos, disk, listed, called_func, config, baseFilePaths, idx, err, listings, called,
                   op, req, sink>>

(***************************************************************************)
(* Show                                                                    *)
(***************************************************************************)
\* the template name with the extension added when it has none
ResolveName(c, os, templateName) ==
    IF Ext(os, templateName) = <<>>
    THEN templateName \o <<Dot>> \o c.Extension
    ELSE templateName

\* a lookup that falls back to the base group
LookupOrBase(templates, subdir) ==
    IF ~templates.nil /\ subdir \in DOMAIN templates.m THEN {templates.m[subdir]}
    ELSE IF ~templates.nil /\ <<>> \in DOMAIN templates.m THEN {templates.m[<<>>]}
    ELSE {}

\* t, ok := c.templates[subdir]: the groups found, none when the key is not
\* in the map (a nil map has no key)
Lookup(templates, subdir) ==
    IF ~templates.nil /\ subdir \in DOMAIN templates.m
    THEN {templates.m[subdir]} ELSE {}

\* the data Show hands to the template
ShowData(c, injectedData) ==
    [Development |-> c.Development, UseLocalFiles |-> c.UseLocalFiles,
     CacheBustFiles |-> c.CacheBustingFilePairs, InjectedData |-> injectedData]

\* the status Show reports an execution error with
ExecuteErrorStatus == StatusNotFound

\* c.Show(w, subdir, templateName, injectedData): w as Show leaves it
\* the end of Show: what the execution wrote is in w, and its error, if any,
\* is reported with http.Error
Report(written, r) ==
    IF r.err # <<>> THEN HttpError(written, r.err, ExecuteErrorStatus) ELSE written

Executing(w, r) == Report(Write(w, r.out), r)

\* the group found is executed; without a group the lookup error is reported
ShowFound(c, w, subdir, name, injectedData, found) ==
    IF found = {}
    THEN HttpError(w, <<"error", "invalid subdirectory">> \o subdir,
                   StatusInternalServerError)
    ELSE Executing(w, ExecuteTemplate(CHOOSE t \in found : TRUE, name,
                                      ShowData(c, injectedData)))

\* c.Show(w, subdir, templateName, injectedData): w as Show leaves it
Show(c, os, w, subdir, templateName, injectedData) ==
    ShowFound(c, w, subdir, ResolveName(c, os, templateName), injectedData,
              Lookup(c.templates, subdir))

\* the inputs of the Show calls
s_index_t_l == s_index \o <<".", "t", "/", "l">>
ShowSubdirs == {<<>>, s_app, s_docs, s_help}
ShowNames == {s_index, s_index_html, s_oops, s_hdr_html, s_index_t_l}
ShowDatas == {"nil", "user"}

\* a Show that drops from the registry the group whose execution failed
DropFailedGroup(c, subdir, w) ==
    IF w.Code = StatusNotFound /\ subdir \in Keys(c.templates)
    THEN [c EXCEPT !.templates.m = [k \in DOMAIN @ \ {subdir} |-> @[k]]]
    ELSE c

\* the Config as Show leaves it: Show reads c and assigns to none of its fields
ConfigAfterShow(c, subdir, w) == c

ShowCall ==
    /\ pc = "idle"
    /\ \E subdir \in ShowSubdirs, templateName \in ShowNames, injectedData \in ShowDatas :
          /\ req' = [subdir |-> subdir, templateName |-> templateName,
                     injectedData |-> injectedData]
          /\ sink' = Show(config, goos, NewRecorder, subdir, templateName, injectedData)
          /\ config' = ConfigAfterShow(config, subdir, sink')
    /\ op' = "Show"
    /\ UNCHANGED <<goos, disk, built, listed, called_func, pc, baseFilePaths, idx, err, listings, called>>

(***************************************************************************)
(* The callers: constructors, the package-level setters, an assignment to  *)
(* the exported field Extension, Build and Show.                           *)
(***************************************************************************)
s_blank == <<" ">>
s_t_padded == <<" ", "t">>
s_zz == <<"z", "z">>
s_tmpl_padded == <<" ", "t", "m", "p", "l", " ">>
s_t_l == <<"t", "/", "l">>

\* every list of at most n elements of S
SeqsUpTo(S, n) == UNION {[1..k -> S] : k \in 0..n}

\* the arguments the callers of SpecBuild pass
BuildBasePaths == {s_blank, s_t_padded, s_zz}
BuildSubDirNames == {s_app, s_help, s_bad, s_blank, s_nope}
BuildSubDirs == SeqsUpTo(BuildSubDirNames, MaxSubDirs)
EmbeddedFSs == {"empty", "bundle"}
Extensions == {s_blank, s_tmpl_padded, s_t_l}

\* the arguments the callers of Spec pass
SessionBasePaths == {s_t}
SessionSubDirs == {<<s_app, s_docs>>, <<s_app, s_help>>, <<s_docs, s_bad>>}

Reset(c) ==
    /\ pc = "idle"
    /\ config' = c
    /\ pc' = "idle"
    /\ baseFilePaths' = <<>>
    /\ idx' = 1
    /\ err' = "nil"
    /\ listings' = 0
    /\ called' = c
    /\ built' = FALSE
    /\ ForgetShow
    /\ UNCHANGED <<goos, disk, listed, called_func>>

NewConfigCall == Reset(NewConfig) /\ op' = "NewConfig"

NewOnDiskConfigCall(basePaths, subdirLists) ==
    /\ \E basePath \in basePaths, subdirs \in subdirLists :
          Reset(NewOnDiskConfig(basePath, subdirs))
    /\ op' = "NewOnDiskConfig"

NewEmbeddedConfigCall(basePaths, subdirLists) ==
    /\ \E embeddedFS \in EmbeddedFSs, basePath \in basePaths, subdirs \in subdirLists :
          Reset(NewEmbeddedConfig(embeddedFS, basePath, subdirs))
    /\ op' = "NewEmbeddedConfig"

\* an assignment to one field of the config between calls
Assign(c, name) ==
    /\ pc = "idle"
    /\ config' = c
    /\ op' = name
    /\ ForgetShow
    /\ UNCHANGED <<goos, disk, built, listed, called_func, pc, baseFilePaths, idx, err, listings, called>>

\* c.Extension = ext
SetExtension ==
    \E ext \in Extensions : Assign([config EXCEPT !.Extension = ext], "SetExtension")

\* c.BasePath = basePath
SetBasePath ==
    \E basePath \in {s_blank} :
        Assign([config EXCEPT !.BasePath = basePath], "SetBasePath")

\* a Development that sets the field next to its own
DevelopmentSetsUseLocalFiles ==
    \E yes \in BOOLEAN : Assign([config EXCEPT !.UseLocalFiles = yes], "Development")

\* Development(yes)
Development ==
    \E yes \in BOOLEAN : Assign([config EXCEPT !.Development = yes], "Development")

\* UseLocalFiles(yes)
UseLocalFiles ==
    \E yes \in BOOLEAN : Assign([config EXCEPT !.UseLocalFiles = yes], "UseLocalFiles")

\* CacheBustingFilePairs(pairs)
CacheBustingFilePairs ==
    \E pairs \in {"nil", "pairs"} :
        Assign([config EXCEPT !.CacheBustingFilePairs = pairs], "CacheBustingFilePairs")

\* the program starts with the config c, before any call
Start(c) ==
    /\ goos \in GOOS
    /\ disk \in Disks
    /\ config = c
    /\ pc = "idle"
    /\ baseFilePaths = <<>>
    /\ idx = 1
    /\ err = "nil"
    /\ listings = 0
    /\ called = c
    /\ op = "init"
    /\ req = NoReq
    /\ sink = NewRecorder
    /\ listed = NoListing
    /\ called_func = NoFuncCall
    /\ built = FALSE

\* the package-level config is the zero Config until a Default...Config call
Init == Start(ZeroConfig)

\* a session of one program: configs made, built and shown
Next ==
    \/ NewConfigCall
    \/ NewOnDiskConfigCall(SessionBasePaths, SessionSubDirs)
    \/ NewEmbeddedConfigCall(SessionBasePaths, SessionSubDirs)
    \/ SetExtension
    \/ BuildStart
    \/ BuildBase
    \/ BuildSubDir
    \/ BuildReturn
    \/ ShowCall

Spec == Init /\ [][Next]_vars

\* the configs a caller constructs, over every base path and every list of
\* subdirectories
BuildConfigs ==
    {NewConfig}
    \cup {NewOnDiskConfig(basePath, subdirs) :
             basePath \in BuildBasePaths, subdirs \in BuildSubDirs}
    \cup {NewEmbeddedConfig(embeddedFS, basePath, subdirs) :
             embeddedFS \in EmbeddedFSs, basePath \in BuildBasePaths,
             subdirs \in BuildSubDirs}

InitBuild == \E c \in BuildConfigs : Start(c)

\* one constructed config, its extension assigned and Build called on it
NextBuild ==
    \/ SetExtension
    \/ SetBasePath
    \/ BuildStart
    \/ BuildBase
    \/ BuildSubDir
    \/ BuildReturn

SpecBuild == InitBuild /\ [][NextBuild]_vars

\* the package-level config: made by DefaultOnDiskConfig, its flags set by the
\* package-level setters, built and shown
NextSetters ==
    \/ NewOnDiskConfigCall(SessionBasePaths, {<<s_app, s_docs>>})
    \/ Development
    \/ UseLocalFiles
    \/ CacheBustingFilePairs
    \/ BuildStart
    \/ BuildBase
    \/ BuildSubDir
    \/ BuildReturn
    \/ ShowCall

SpecSetters == Init /\ [][NextSetters]_vars

(***************************************************************************)
(* Show called by another goroutine while Build runs: nothing in Config    *)
(* serializes the two.  The read of c.templates races with Build's writes: *)
(* Show finds the map as Build has filled it so far, or the map Build has  *)
(* replaced, or the runtime stops the program at a map read during a map   *)
(* write.                                                                  *)
(***************************************************************************)
FatalError ==
    [Code |-> 0, wroteHeader |-> FALSE,
     Body |-> << <<"fatal error", "concurrent map read and map write">> >>]

RacingOutcomes(subdir, templateName, injectedData) ==
    {Show(config, goos, NewRecorder, subdir, templateName, injectedData),
     Show([config EXCEPT !.templates = called.templates], goos, NewRecorder,
          subdir, templateName, injectedData),
     FatalError}

ShowDuringBuild ==
    /\ pc # "idle"
    /\ \E subdir \in ShowSubdirs, templateName \in ShowNames, injectedData \in ShowDatas :
          /\ req' = [subdir |-> subdir, templateName |-> templateName,
                     injectedData |-> injectedData]
          /\ sink' \in RacingOutcomes(subdir, templateName, injectedData)
    /\ op' = "ShowDuringBuild"
    /\ UNCHANGED <<goos, disk, built, listed, called_func, config, pc, baseFilePaths, idx, err, listings,
                   called>>

\* the configs of the racing callers
RaceConfigs ==
    {NewOnDiskConfig(s_t, subdirs) : subdirs \in SessionSubDirs}
    \cup {NewEmbeddedConfig("bundle", s_t, subdirs) : subdirs \in SessionSubDirs}

InitRace == \E c \in RaceConfigs : Start(c)

\* one config, built and rebuilt by one goroutine and shown by another
NextRace ==
    \/ BuildStart
    \/ BuildBase
    \/ BuildSubDir
    \/ BuildReturn
    \/ ShowCall
    \/ ShowDuringBuild

SpecRace == InitRace /\ [][NextRace]_vars

(***************************************************************************)
(* buildPathsToFiles called on its own, as its test calls it               *)
(***************************************************************************)
\* the directories asked for, by their elements, and the separators they are
\* written with
ListKeys ==
    {<<s_t>>, <<s_t, s_app>>, <<s_t, s_help>>, <<s_t, s_docs>>, <<s_t, s_nope>>}
ListSeparators == {Slash, BackSlash}

\* the extensions of the configs listed with
ListExtensions ==
    {defaultExtension, s_tmpl, <<"b", "a", "k">>,
     <<"h", "t", "m", "l", ".", "b", "a", "k">>}

ListConfigs ==
    {[c EXCEPT !.Extension = ext] :
        c \in {NewOnDiskConfig(s_t, <<>>)}
              \cup {NewEmbeddedConfig(embeddedFS, s_t, <<>>) : embeddedFS \in EmbeddedFSs},
        ext \in ListExtensions}

\* paths, err := c.buildPathsToFiles(pathToDirectory)
Listed(pathToDirectory, r) ==
    /\ listed' = [pathToDirectory |-> pathToDirectory, paths |-> r.paths, err |-> r.err]
    /\ op' = "buildPathsToFiles"
    /\ UNCHANGED <<goos, disk, built, called_func, config, pc, baseFilePaths, idx, err, listings,
                   called, req, sink>>

ListIn(pathToDirectory) ==
    Listed(pathToDirectory, buildPathsToFiles(config, goos, disk, pathToDirectory))

ListCall ==
    /\ pc = "idle"
    /\ \E key \in ListKeys, sep \in ListSeparators : ListIn(JoinWith(sep, key))

InitPaths == \E c \in ListConfigs : Start(c)

SpecPaths == InitPaths /\ [][ListCall]_vars

(***************************************************************************)
(* A template function called                                              *)
(***************************************************************************)
FuncDateReformatCall ==
    /\ \E date \in Dates, format \in Formats :
          called_func' = [name |-> "FuncDateReformat", date |-> date, format |-> format,
                          d |-> FuncDateReformat(date, format)]
    /\ UNCHANGED <<goos, disk, built, listed, config, pc, baseFilePaths, idx, err, listings, called,
                   op, req, sink>>

SpecFuncs == Init /\ [][FuncDateReformatCall]_vars

(***************************************************************************)
(* The properties of Build                                                 *)
(***************************************************************************)
ValidationErrors ==
    {"ErrBasePathNotSet", "stat base", "ErrInvalidSubDir", "stat subdir",
     "ErrNoEmbeddedFilesProvided"}

\* the latest call was Build and it has returned
BuildReturned == op = "Build" /\ pc = "idle"
BuildSucceeded == BuildReturned /\ err = "nil"
BuildFailedAfterValidation == BuildReturned /\ err \notin ValidationErrors \cup {"nil"}
BuildFailedValidation == BuildReturned /\ err \in ValidationErrors

Range(s) == {s[k] : k \in 1..Len(s)}
HasSuffix(s, suffix) ==
    /\ Len(suffix) <= Len(s)
    /\ SubSeq(s, Len(s) - Len(suffix) + 1, Len(s)) = suffix

\* a matching file: not a directory, and the suffix of its name from the last
\* dot on is "." + ext
MatchingFile(e, ext) ==
    ~e.dir /\ Dot \notin Range(ext) /\ HasSuffix(e.name, <<Dot>> \o ext)

\* the template sources of the config: the disk, or the embedded bundle
Sources == IF config.UseEmbedded THEN TemplateTree ELSE DiskTree(disk)

\* the matching files that lie directly in a directory of the sources
MatchingIn(dir) ==
    IF dir \in DOMAIN Sources
    THEN {e \in Range(Sources[dir]) : MatchingFile(e, config.Extension)}
    ELSE {}

BaseDir == <<config.BasePath>>
SubDirOf(subDir) == <<config.BasePath, subDir>>

\* the keys a successful Build leaves: "" when the base directory has a
\* matching file, and each configured subdirectory that has one of its own
ExpectedKeys ==
    (IF MatchingIn(BaseDir) # {} THEN {<<>>} ELSE {})
    \cup {subDir \in Range(config.SubDirs) : MatchingIn(SubDirOf(subDir)) # {}}

\* C1: when Build fails after validation has passed (a discovery error or a
\* compile error, for the base group or for a subdirectory), the registry
\* holds no group when Build returns: the groups compiled earlier in the
\* call are discarded.
C1_FailedBuildLeavesNoGroup ==
    BuildFailedAfterValidation => Keys(config.templates) = {}

\* C2: after a successful Build of an OnDisk config the registry's keys are
\* exactly "" if and only if the base directory has a matching file, plus
\* each configured subdirectory with a matching file of its own; a
\* subdirectory without matching files gives no key and no error.
C2_KeySet ==
    (BuildSucceeded /\ ~config.UseEmbedded) => Keys(config.templates) = ExpectedKeys

\* a successful Build with the base group, a subdirectory's group, and a
\* configured subdirectory (help) that has no matching file
C2_Witness ==
    /\ BuildSucceeded
    /\ ~config.UseEmbedded
    /\ s_help \in Range(config.SubDirs)
    /\ Keys(config.templates) = {<<>>, s_app}

\* the templates a group defines when it is compiled from `files`
ExpectedDefs(files) ==
    [n \in {e.name : e \in files} |-> (CHOOSE e \in files : e.name = n).body]

\* the files of the group under a key: the base files, and for a
\* subdirectory its own (a name of both is defined by the base file, which is
\* parsed after it)
ExpectedFiles(key) ==
    MatchingIn(BaseDir)
    \cup (IF key = <<>> THEN {}
          ELSE {e \in MatchingIn(SubDirOf(key)) :
                   \A b \in MatchingIn(BaseDir) : b.name # e.name})

\* C3: the registry after a successful Build depends on the configuration and
\* the template sources alone, never on the registry before the call: its
\* keys and the contents of its groups are those the sources give, and a key
\* of the earlier registry that this Build does not produce is absent.
C3_RegistryFromConfigAndSources ==
    BuildSucceeded =>
        /\ Keys(config.templates) = ExpectedKeys
        /\ \A key \in Keys(config.templates) :
              config.templates.m[key].defs = ExpectedDefs(ExpectedFiles(key))

\* a successful Build on a config whose registry held a key this Build does
\* not produce
C3_Witness ==
    /\ BuildSucceeded
    /\ Keys(called.templates) \ ExpectedKeys # {}
    /\ Keys(called.templates) \ Keys(config.templates) # {}

(***************************************************************************)
(* The properties of validate                                              *)
(***************************************************************************)
Blank(s) == Range(s) \subseteq {Space}

\* whether something lies at the place on the disk
Exists(key) == EntryAt(DiskTree(disk), key) # {}

\* the positions of the subdirectories of c that break rule 3
BadSubDirs(c) ==
    {k \in 1..Len(c.SubDirs) :
        \/ Blank(c.SubDirs[k])
        \/ ~Exists(<<TrimSpace(c.BasePath), TrimSpace(c.SubDirs[k])>>)}

FirstBadSubDir(c) == CHOOSE k \in BadSubDirs(c) : \A j \in BadSubDirs(c) : k <= j

\* the error of the first rule c breaks, in the order of the rules
FirstViolated(c) ==
    IF Blank(c.BasePath) THEN "ErrBasePathNotSet"
    ELSE IF ~c.UseEmbedded /\ ~Exists(<<TrimSpace(c.BasePath)>>) THEN "stat base"
    ELSE IF ~c.UseEmbedded /\ BadSubDirs(c) # {}
    THEN (IF Blank(c.SubDirs[FirstBadSubDir(c)])
          THEN "ErrInvalidSubDir" ELSE "stat subdir")
    ELSE IF c.UseEmbedded /\ c.EmbeddedFS = "empty" THEN "ErrNoEmbeddedFilesProvided"
    ELSE "nil"

\* Build has just validated: no directory was listed yet
JustValidated == op = "Build" /\ listings = 0 /\ pc \in {"idle", "base"}

C10_FailedValidationChangesNothing ==
    BuildFailedValidation =>
        /\ listings = 0
        /\ config.templates = called.templates

\* Build fails its validation on a config that holds built groups
C10_Witness ==
    /\ BuildFailedValidation
    /\ Keys(called.templates) # {}
    /\ config.templates = called.templates

(***************************************************************************)
(* The properties of the groups and of Show                                *)
(***************************************************************************)
\* the template names the matching files of a directory declare
NamesIn(dir) == {e.name : e \in MatchingIn(dir)}

\* the names a built group defines
Defined(key) == DOMAIN config.templates.m[key].defs

\* what a Show call on the config as it is now leaves in a fresh writer
Shown(subdir, templateName, injectedData) ==
    Show(config, goos, NewRecorder, subdir, templateName, injectedData)

\* C4: inheritance.  After a successful Build every subdirectory group of the
\* registry defines every name of the base files besides the names of its
\* own files, and Show of an own file succeeds and renders what it references
\* of the base files: Show("app", "index") gives 200, with the header of the
\* base directory in the output.
C4_Inheritance ==
    BuildSucceeded =>
        /\ \A key \in Keys(config.templates) \ {<<>>} :
              NamesIn(BaseDir) \cup NamesIn(SubDirOf(key)) \subseteq Defined(key)
        /\ (s_app \in Keys(config.templates) /\ s_hdr_html \in NamesIn(BaseDir)) =>
              /\ Shown(s_app, s_index, "nil").Code = StatusOK
              /\ {Text("hdr"), Text("app index")}
                    \subseteq Range(Shown(s_app, s_index, "nil").Body)

\* a successful Build that left the group of app, with base files to inherit
C4_Witness ==
    /\ BuildSucceeded
    /\ s_app \in Keys(config.templates)
    /\ s_hdr_html \in NamesIn(BaseDir)
    /\ s_index_html \in NamesIn(SubDirOf(s_app))

\* C5: group isolation.  The group of a subdirectory defines only names of
\* its own files and of the base files, never a name that only another
\* subdirectory's files declare; app and docs both declare index.html without
\* a build error, and Show of either renders its own definition.
C5_GroupIsolation ==
    BuildSucceeded =>
        /\ \A key \in Keys(config.templates) \ {<<>>} :
              Defined(key) \subseteq NamesIn(BaseDir) \cup NamesIn(SubDirOf(key))
        /\ ({s_app, s_docs} \subseteq Keys(config.templates)
            /\ s_index_html \in Defined(s_app) \cap Defined(s_docs)) =>
              /\ Text("app index") \in Range(Shown(s_app, s_index, "user").Body)
              /\ Text("docs index") \notin Range(Shown(s_app, s_index, "user").Body)
              /\ Text("docs index") \in Range(Shown(s_docs, s_index, "user").Body)
              /\ Text("app index") \notin Range(Shown(s_docs, s_index, "user").Body)

\* a successful Build that left the groups of app and docs, both declaring
\* index.html, each with its own definition
C5_Witness ==
    /\ BuildSucceeded
    /\ {s_app, s_docs} \subseteq Keys(config.templates)
    /\ s_index_html \in Defined(s_app) \cap Defined(s_docs)
    /\ config.templates.m[s_app].defs[s_index_html]
          # config.templates.m[s_docs].defs[s_index_html]

\* the latest call was Show
Showed == op = "Show"

\* C6: Show with a group key that is not in the registry never succeeds: the
\* writer gets status 500 and the lookup error alone, nothing of any
\* template, whatever the registry holds (nothing, after no Build or a failed
\* one, or other groups such as the base group).
C6_UnknownGroup ==
    (Showed /\ req.subdir \notin Keys(config.templates)) =>
        /\ sink.Code = StatusInternalServerError
        /\ sink.Body = << <<"error", "invalid subdirectory">> \o req.subdir >>

\* Show of a base template under a key the registry lacks, while the base
\* group is in the registry
C6_Witness ==
    /\ Showed
    /\ req.subdir = s_help
    /\ req.templateName = s_hdr_html
    /\ Keys(config.templates) = {<<>>, s_app}
    /\ sink.Code = StatusInternalServerError

\* what executing the template of the latest Show returns
Execution ==
    ExecuteTemplate(config.templates.m[req.subdir],
                    ResolveName(config, goos, req.templateName),
                    ShowData(config, req.injectedData))

\* C7: whenever the execution of the named template fails inside a group of
\* the registry (an unknown name, or an error at any point of the execution),
\* Show leaves the status 404 in the writer.
C7_ExecutionFailureIs404 ==
    (Showed /\ req.subdir \in Keys(config.templates) /\ Execution.err # <<>>) =>
        sink.Code = StatusNotFound

\* C8: for every registry, group key, data and template name without an
\* extension, Show of the name leaves in the writer what Show of the name
\* with "." and the extension added leaves.
C8_ExtensionOptional ==
    \A g \in ShowSubdirs, d \in ShowDatas :
        \A n \in {name \in ShowNames : Dot \notin Range(name)} :
            Shown(g, n, d) = Shown(g, n \o <<Dot>> \o config.Extension, d)

(***************************************************************************)
(* The properties of the extension and of buildPathsToFiles                *)
(***************************************************************************)
\* t is s without the spaces around it
TrimmedFrom(t, s) ==
    /\ t # <<>>
    /\ t[1] # Space
    /\ t[Len(t)] # Space
    /\ \E i \in 1..Len(s) :
          /\ i + Len(t) - 1 <= Len(s)
          /\ t = SubSeq(s, i, i + Len(t) - 1)
          /\ Blank(SubSeq(s, 1, i - 1))
          /\ Blank(SubSeq(s, i + Len(t), Len(s)))

\* validate has just passed
Validated == JustValidated /\ err = "nil"

\* C11: after every successful validate the extension is not blank: a blank
\* extension has been replaced by "html", any other is kept, without the
\* spaces around it.
C11_ExtensionNormalised ==
    Validated =>
        /\ ~Blank(config.Extension)
        /\ Blank(called.Extension) => config.Extension = defaultExtension
        /\ ~Blank(called.Extension) => TrimmedFrom(config.Extension, called.Extension)

\* validate passed on a config whose extension was spaces, and on one whose
\* extension had spaces around it
C11_Witness ==
    /\ Validated
    /\ \/ called.Extension = s_blank /\ config.Extension = defaultExtension
       \/ called.Extension = s_tmpl_padded /\ config.Extension = s_tmpl

\* the latest call was buildPathsToFiles, called on its own
ListedJust == op = "buildPathsToFiles"

\* whether sep separates the elements of a path where the config lists
Separates(sep) == sep = Slash \/ goos = "windows"

\* the separator of the paths the config's listing returns
PathSeparator == IF config.UseEmbedded THEN Slash ELSE Separator(goos)

\* whether the config's sources can be listed at all
Listable == config.UseEmbedded => config.EmbeddedFS = "bundle"

\* C12: buildPathsToFiles(dir) returns exactly one path, the directory joined
\* with the name, for each immediate entry of the directory that is not a
\* directory and whose name from its last dot on is "." + Extension, and
\* nothing else; a directory without such an entry gives no path and no
\* error.
C12_ExactlyTheMatchingFiles ==
    ListedJust =>
        \A key \in ListKeys, sep \in ListSeparators :
            (/\ listed.pathToDirectory = JoinWith(sep, key)
             /\ Separates(sep)
             /\ Listable
             /\ key \in DOMAIN Sources) =>
                /\ listed.err = "nil"
                /\ Len(listed.paths) = Cardinality(MatchingIn(key))
                /\ Range(listed.paths) =
                      {JoinWith(PathSeparator, key \o <<e.name>>) : e \in MatchingIn(key)}

\* the base directory listed on disk: of its subdirectories, old.html.bak and
\* hdr.html, the one path returned is that of hdr.html
C12_Witness ==
    /\ ListedJust
    /\ ~config.UseEmbedded
    /\ listed.pathToDirectory = s_t
    /\ config.Extension = defaultExtension
    /\ listed.paths = <<JoinWith(Separator(goos), <<s_t, s_hdr_html>>)>>

\* a path with every backslash replaced by a slash
SlashForm(s) == [k \in 1..Len(s) |-> IF s[k] = BackSlash THEN Slash ELSE s[k]]

HasPrefix(s, prefix) == Len(prefix) <= Len(s) /\ SubSeq(s, 1, Len(prefix)) = prefix

Built == pc = "idle" /\ err = "nil" /\ listings > 0

\* C14: a Show that runs while a Build is in progress can find a registry
\* that is neither the one before the Build nor the one after it (a lookup
\* failure for a key both hold); a Show that runs while no Build is in
\* progress finds the whole registry of the latest Build: its lookup fails
\* exactly for the keys that registry lacks.
C14_SerializedShowSeesWholeRegistry ==
    (Showed /\ Built) =>
        (sink.Code = StatusInternalServerError <=> req.subdir \notin ExpectedKeys)

\* a Show during a rebuild: the lookup fails for a key that the registry held
\* before the Build and holds after it
C14_Witness ==
    /\ op = "ShowDuringBuild"
    /\ pc # "idle"
    /\ req.subdir \in Keys(called.templates) \cap ExpectedKeys
    /\ sink.Code = StatusInternalServerError
    /\ sink.Body = << <<"error", "invalid subdirectory">> \o req.subdir >>

ValidDates ==
    {<<"2", "0", "2", "0", "-", "0", "1", "-", "0", "1">>,
     <<"2", "0", "2", "0", "-", "0", "2", "-", "2", "9">>,
     <<"2", "0", "1", "9", "-", "1", "2", "-", "3", "1">>}

Reformatting == called_func.name = "FuncDateReformat"

HeaderOf(c) ==
    <<Text("hdr"), <<"dev", BoolText(c.Development)>>,
      <<"local", BoolText(c.UseLocalFiles)>>, <<"bust", c.CacheBustingFilePairs>>>>

\* C17: each of Development, UseLocalFiles and CacheBustingFilePairs sets its
\* own field of the package-level config and leaves every other field and the
\* registry as they were; a later Show hands the values to the template as
\* they are, without a rebuild.
C17_SettersSetTheirOwnField ==
    [][/\ op' = "Development" =>
              \E yes \in BOOLEAN : config' = [config EXCEPT !.Development = yes]
       /\ op' = "UseLocalFiles" =>
              \E yes \in BOOLEAN : config' = [config EXCEPT !.UseLocalFiles = yes]
       /\ op' = "CacheBustingFilePairs" =>
              \E pairs \in {"nil", "pairs"} :
                  config' = [config EXCEPT !.CacheBustingFilePairs = pairs]
       /\ (op' = "Show" /\ req'.subdir = <<>> /\ req'.templateName = s_hdr_html
           /\ sink'.Code = StatusOK) =>
              sink'.Body = HeaderOf(config')]_vars

\* the base header shown with the three values set after the Build
C17_Witness ==
    /\ Showed
    /\ req.subdir = <<>>
    /\ req.templateName = s_hdr_html
    /\ config.Development
    /\ config.UseLocalFiles
    /\ config.CacheBustingFilePairs = "pairs"
    /\ sink.Body = HeaderOf(config)

(***************************************************************************)
(* The property of the merge order                                         *)
(***************************************************************************)
\* the paths of the matching files of a directory, in the order of its
\* listing
PathsInOrder(dir) ==
    IF dir \notin DOMAIN Sources THEN <<>>
    ELSE LET files == SelectSeq(Sources[dir],
                                LAMBDA e : MatchingFile(e, config.Extension))
         IN  [k \in 1..Len(files) |-> JoinWith(PathSeparator, dir \o <<files[k].name>>)]

\* the positions of the sources of a group that are files named `name`
PositionsOf(key, dir, name) ==
    {k \in 1..Len(config.templates.m[key].srcs) :
        config.templates.m[key].srcs[k] = JoinWith(PathSeparator, dir \o <<name>>)}

\* C18: merge order.  The sources a subdirectory group is compiled from are
\* the subdirectory's own files in the order of their discovery, then all
\* base files in the order of theirs; so of a subdirectory file and a base
\* file that define the same name the subdirectory's is the earlier source
\* (the one an engine where the first definition wins would use).
C18_OwnFilesThenBaseFiles ==
    BuildSucceeded =>
        \A key \in Keys(config.templates) \ {<<>>} :
            /\ config.templates.m[key].srcs
                  = PathsInOrder(SubDirOf(key)) \o PathsInOrder(BaseDir)
            /\ \A e \in MatchingIn(SubDirOf(key)), b \in MatchingIn(BaseDir) :
                  e.name = b.name =>
                      \A i \in PositionsOf(key, SubDirOf(key), e.name),
                         j \in PositionsOf(key, BaseDir, b.name) : i < j

\* a successful Build of docs, whose hdr.html has the name of a base file
C18_Witness ==
    /\ BuildSucceeded
    /\ s_docs \in Keys(config.templates)
    /\ \E e \in MatchingIn(SubDirOf(s_docs)), b \in MatchingIn(BaseDir) :
          e.name = b.name /\ e.body # b.body
    /\ Len(config.templates.m[s_docs].srcs) = 3

(***************************************************************************)
(* The property of the key "": configs whose list of subdirectories may    *)
(* hold the empty name, in both modes.                                      *)
(***************************************************************************)
InitSubDirs ==
    \E basePath \in SessionBasePaths,
       subdirs \in SeqsUpTo({<<>>, s_app, s_docs}, MaxSubDirs) :
          \/ Start(NewOnDiskConfig(basePath, subdirs))
          \/ Start(NewEmbeddedConfig("bundle", basePath, subdirs))

SpecSubDirs == InitSubDirs /\ [][NextBuild]_vars

\* C19: after every successful Build, in both modes, the key "" (when
\* present) holds the group compiled from the base files alone, and every
\* other key is a non-blank name of the list of subdirectories: no entry of
\* the list wrote the entry under "".
C19_BaseKeyHoldsTheBaseGroup ==
    BuildSucceeded =>
        /\ <<>> \in Keys(config.templates) =>
              config.templates.m[<<>>].srcs = PathsInOrder(BaseDir)
        /\ \A key \in Keys(config.templates) \ {<<>>} :
              ~Blank(key) /\ key \in Range(config.SubDirs)

\* in OnDisk mode validate rejects the empty name, and the key "" holds the
\* base group
C19_OnDisk ==
    BuildSucceeded /\ ~config.UseEmbedded =>
        /\ \A subDir \in Range(config.SubDirs) : ~Blank(subDir)
        /\ <<>> \in Keys(config.templates) =>
              config.templates.m[<<>>].srcs = PathsInOrder(BaseDir)

(***************************************************************************)
(* The property of Show and the Builds before it                            *)
(***************************************************************************)
\* the latest Show found its group and executed the template without error
ShowSucceeded ==
    Showed /\ req.subdir \in Keys(config.templates) /\ Execution.err = <<>>

\* no Build has been called on the config since it was constructed
Fresh == pc = "idle" /\ ~built /\ err = "nil" /\ listings = 0

\* the writer after the lookup failure of the latest Show
LookupFailed ==
    /\ sink.Code = StatusInternalServerError
    /\ sink.Body = << <<"error", "invalid subdirectory">> \o req.subdir >>

\* C20: over every sequence of constructors, Builds and Shows, a Show on a
\* config succeeds only if a Build on that config has returned nil since the
\* config was constructed or overwritten; every Show on a freshly
\* constructed config (the nil map of NewConfig included) ends in the lookup
\* failure.
C20_ShowSucceedsOnlyAfterASuccessfulBuild ==
    /\ ShowSucceeded => built
    /\ (Showed /\ Fresh) => LookupFailed

\* the part of C20 about configs no Build was called on
C20_FreshConfigFailsTheLookup == (Showed /\ Fresh) => LookupFailed

\* a Show on the config of NewConfig, whose map is nil
C20_FreshWitness ==
    Showed /\ Fresh /\ config.templates.nil /\ LookupFailed

=============================================================================
